---------------------------- MODULE Spec2Model ----------------------------
(***************************************************************************)
(* Model of the CBT chatbot core: the session store and engine            *)
(* (src/src/core/chatbot_engine.py) and the hybrid response merger        *)
(* (src/src/core/hybrid_generator.py).                                    *)
(*                                                                         *)
(* Spec      : the engine driven by one caller (calls run to completion)  *)
(* SpecAnalyzer : the same, the engine constructed with an analyzer       *)
(* SpecMerge : _merge_responses applied to bounded candidate pairs        *)
(* SpecConc  : process_message calls of several threads, interleaved at   *)
(*             the statements of the handler                              *)
(* SpecChat  : one conversation of several messages, with or without an   *)
(*             analyzer                                                    *)
(* SpecClock : one session while the wall clock moves on between calls    *)
(* SpecDetect: _detect_emotional_state applied to bounded signals         *)
(* SpecEnd   : process_message and end_session calls of several threads   *)
(*             on one session                                              *)
(*                                                                         *)
(* Confidences, similarities and thresholds are decimal numbers scaled by *)
(* 1000 (0.3 is 300); texts are strings, so len() is Len and + is \o.     *)
(***************************************************************************)
EXTENDS Integers, Sequences, FiniteSets, TLC

(***************************************************************************)
(* Bounds of the model                                                     *)
(***************************************************************************)
MaxIssued == 2          \* ids uuid4 hands out in one behaviour
MaxTurns == 2           \* turns held by the store at one time

(***************************************************************************)
(* Program constants                                                       *)
(***************************************************************************)
LowConfidence == 300        \* 0.3
DefaultThreshold == 700     \* 0.7
SimilarCutoff == 850        \* 0.85
StrongConfidence == 800     \* 0.8
SubstantialLen == 50
GptConfidence == 900        \* 0.9
FallbackConfidence == 500   \* 0.5
HistoryWindow == 5
SecondsPerDay == 86400

FallbackText ==
  "I'm here to listen and support you. Could you tell me more about what you're experiencing?"

(***************************************************************************)
(* Input universes                                                         *)
(***************************************************************************)
\* the values str(uuid.uuid4()) gives, named by the order they are drawn in
Uuid(i) == "uuid-" \o ToString(i)

Uuids == { Uuid(i) : i \in 1..MaxIssued }
\* ids a caller can make up without having been given them
ForeignIds == {"stale"}
UserIds == {"user-1"}
Messages == {"Hello", "I need help"}
\* the readings datetime.now() gives, in seconds from the first: under a
\* minute, a minute, a day and more than a day later
ClockReadings == {0, 59, 60, 86400, 86460}

Text50 == "12345678901234567890123456789012345678901234567890"
Text51 == "123456789012345678901234567890123456789012345678901"

EmotionalState == {"anxious", "depressed", "stressed", "calm", "neutral", "unknown"}


(***************************************************************************)
(* State                                                                   *)
(***************************************************************************)
VARIABLES
  sessions,             \* CBTChatbotEngine.sessions: id -> ChatSession
  sentiment_analyzer,   \* CBTChatbotEngine.sentiment_analyzer is supplied
  confidence_threshold, \* HybridResponseGenerator.confidence_threshold
  issued,               \* every id uuid4 has returned so far
  now,                  \* the reading datetime.now() gives
  last,                 \* the call that completed last, with its outcome
  ended,                \* ids for which end_session has returned True
  log,                  \* per id: the process_message results returned for it
  unreported,           \* ids holding a turn whose call raised
  merge,                \* SpecMerge: the candidates and the merged text
  threads,              \* SpecConc: each thread's call, position and locals
  detached              \* ChatSession objects deleted from the store that a
                        \* running call may still refer to, by id

vars ==
  << sessions, sentiment_analyzer, confidence_threshold, issued, now, last,
     ended, log, unreported, merge, threads,
       detached >>

(***************************************************************************)
(* Optional values: Python's None against a value                          *)
(***************************************************************************)
None == [found |-> FALSE]

Some(v) == [found |-> TRUE, value |-> v]

(***************************************************************************)
(* ConversationTurn and ChatSession                                        *)
(***************************************************************************)
ConversationTurn(user_message, bot_response, timestamp, emotional_state, confidence) ==
  [ user_message |-> user_message,
    bot_response |-> bot_response,
    timestamp |-> timestamp,
    emotional_state |-> emotional_state,
    confidence |-> confidence ]

\* a plausible slip: last_active = datetime.now() in place of the
\* default_factory, so the default is the reading taken when the class was
\* defined (the first reading, 0)
ChatSession_last_active_at_import(session_id, user_id, t1, t2) ==
  [ session_id |-> session_id,
    user_id |-> user_id,
    conversation_history |-> << >>,
    created_at |-> t1,
    last_active |-> 0,
    context |-> << >> ]

\* the same slip on created_at
ChatSession_created_at_import(session_id, user_id, t1, t2) ==
  [ session_id |-> session_id,
    user_id |-> user_id,
    conversation_history |-> << >>,
    created_at |-> 0,
    last_active |-> t2,
    context |-> << >> ]

\* the dataclass defaults: no turns, created_at and last_active each read from
\* the clock (t1, then t2), context {}
ChatSession(session_id, user_id, t1, t2) ==
  [ session_id |-> session_id,
    user_id |-> user_id,
    conversation_history |-> << >>,
    created_at |-> t1,
    last_active |-> t2,
    context |-> << >> ]

\* self.conversation_history.append(turn)
append_turn(session, turn) ==
  [ session EXCEPT !.conversation_history = Append(@, turn) ]

\* self.last_active = datetime.now()
set_last_active(session, t) == [ session EXCEPT !.last_active = t ]

\* a plausible slip: the new turn goes to the front of the list
add_turn_front(session, user_message, bot_response, emotional_state, confidence, t1, t2) ==
  [ session EXCEPT
      !.conversation_history =
        << ConversationTurn(user_message, bot_response, t1, emotional_state, confidence) >>
          \o @,
      !.last_active = t2 ]

\* a plausible slip: emotional_state is not handed on to the turn, which
\* keeps the dataclass default UNKNOWN
add_turn_default_label(session, user_message, bot_response, emotional_state, confidence, t1, t2) ==
  set_last_active(
    append_turn(session,
                ConversationTurn(user_message, bot_response, t1, "unknown", confidence)),
    t2)

\* the turn's timestamp default is read first (t1), last_active after it (t2)
add_turn(session, user_message, bot_response, emotional_state, confidence, t1, t2) ==
  set_last_active(
    append_turn(session,
                ConversationTurn(user_message, bot_response, t1, emotional_state,
                                 confidence)),
    t2)

\* a plausible slip: seq[:n], the first n turns
FirstN(seq, n) ==
  IF Len(seq) <= n THEN seq ELSE SubSeq(seq, 1, n)

\* Python's seq[-n:] for n > 0
LastN(seq, n) ==
  IF Len(seq) <= n THEN seq ELSE SubSeq(seq, Len(seq) - n + 1, Len(seq))

get_recent_history(session, n) ==
  LET recent == LastN(session.conversation_history, n)
  IN  [ i \in 1..Len(recent) |->
          [ user |-> recent[i].user_message, assistant |-> recent[i].bot_response ] ]

(***************************************************************************)
(* HybridResponseGenerator: candidates and the merge policy                *)
(***************************************************************************)
ResponseCandidate(text, confidence, source) ==
  [ text |-> text, confidence |-> confidence, source |-> source ]

\* what a backend or the embedding model gives: a value, or an exception
Raises == [ok |-> FALSE]

Returns(v) == [ok |-> TRUE, value |-> v]

\* custom is the outcome of custom_model.generate: Raises or Returns(<<text, confidence>>)
_generate_custom_response(custom) ==
  IF custom.ok
    THEN ResponseCandidate(custom.value[1], custom.value[2], "custom_cbt_model")
    ELSE ResponseCandidate("", 0, "custom_cbt_model")

\* a plausible slip: the general backend degrades as the custom one does, to
\* an empty candidate
_generate_gpt_response_empty(gpt) ==
  IF gpt.ok
    THEN ResponseCandidate(gpt.value, GptConfidence, "gpt4")
    ELSE ResponseCandidate("", 0, "gpt4_fallback")

\* the system message every request to the general backend starts with
SystemPrompt ==
  "You are an empathetic and knowledgeable CBT (Cognitive Behavioral Therapy) mental health chatbot. Your role is to:\n"
  \o "\n"
  \o "1. Provide supportive, evidence-based responses using CBT principles\n"
  \o "2. Help users identify and challenge negative thought patterns\n"
  \o "3. Encourage behavioral activation and healthy coping strategies\n"
  \o "4. Show empathy and validate emotions while guiding toward solutions\n"
  \o "5. Ask clarifying questions to better understand the user's situation\n"
  \o "6. Suggest practical CBT techniques when appropriate\n"
  \o "\n"
  \o "Important guidelines:\n"
  \o "- Always be supportive and non-judgmental\n"
  \o "- Use CBT frameworks (identifying automatic thoughts, cognitive distortions, behavioral experiments)\n"
  \o "- Encourage professional help for serious mental health concerns\n"
  \o "- Maintain appropriate boundaries\n"
  \o "- Focus on empowerment and skill-building\n"
  \o "\n"
  \o "Remember: You are a supportive tool, not a replacement for professional therapy."

\* turn.get(key, default) on a history entry
get(turn, key, default) ==
  IF key \in DOMAIN turn THEN turn[key] ELSE default

\* the user and the assistant message of each turn, in the turns' order
history_messages(turns) ==
  [ j \in 1..(2 * Len(turns)) |->
      IF j % 2 = 1
        THEN [ role |-> "user", content |-> get(turns[(j + 1) \div 2], "user", "") ]
        ELSE [ role |-> "assistant", content |-> get(turns[j \div 2], "assistant", "") ] ]

\* a plausible slip: the current message is put before the history
_build_gpt_messages_current_first(user_message, conversation_history) ==
  << [ role |-> "system", content |-> SystemPrompt ] >>
    \o << [ role |-> "user", content |-> user_message ] >>
    \o history_messages(LastN(conversation_history, HistoryWindow))

\* the message array for the chat completion (session_context is not read)
_build_gpt_messages(user_message, conversation_history) ==
  << [ role |-> "system", content |-> SystemPrompt ] >>
    \o history_messages(LastN(conversation_history, HistoryWindow))
    \o << [ role |-> "user", content |-> user_message ] >>

\* gpt is the outcome of the chat completion: Raises or Returns(text)
_generate_gpt_response(gpt) ==
  IF gpt.ok
    THEN ResponseCandidate(gpt.value, GptConfidence, "gpt4")
    ELSE ResponseCandidate(FallbackText, FallbackConfidence, "gpt4_fallback")

\* a plausible slip: the custom text wins from 0.8 on, not only above it
_create_hybrid_response_ge(custom_response, gpt_response, similarity) ==
  IF ~similarity.ok THEN Raises
  ELSE IF similarity.value > SimilarCutoff
    THEN IF custom_response.confidence >= StrongConfidence
           THEN Returns(custom_response.text)
           ELSE Returns(gpt_response.text)
  ELSE IF Len(custom_response.text) > SubstantialLen
    THEN Returns(gpt_response.text \o "\n\n" \o custom_response.text)
  ELSE Returns(gpt_response.text)

\* a plausible slip: a custom text of exactly 50 characters counts as
\* substantial
_create_hybrid_response_len_ge(custom_response, gpt_response, similarity) ==
  IF ~similarity.ok THEN Raises
  ELSE IF similarity.value > SimilarCutoff
    THEN IF custom_response.confidence > StrongConfidence
           THEN Returns(custom_response.text)
           ELSE Returns(gpt_response.text)
  ELSE IF Len(custom_response.text) >= SubstantialLen
    THEN Returns(gpt_response.text \o "\n\n" \o custom_response.text)
  ELSE Returns(gpt_response.text)

\* a plausible slip: a failing embedding model is caught and the general
\* text returned
_create_hybrid_response_guarded(custom_response, gpt_response, similarity) ==
  IF ~similarity.ok THEN Returns(gpt_response.text)
  ELSE IF similarity.value > SimilarCutoff
    THEN IF custom_response.confidence > StrongConfidence
           THEN Returns(custom_response.text)
           ELSE Returns(gpt_response.text)
  ELSE IF Len(custom_response.text) > SubstantialLen
    THEN Returns(gpt_response.text \o "\n\n" \o custom_response.text)
  ELSE Returns(gpt_response.text)

\* a plausible slip: what the comment on the near-duplicate rule says, the
\* candidate of the higher confidence wins
_create_hybrid_response_higher_confidence(custom_response, gpt_response, similarity) ==
  IF ~similarity.ok THEN Raises
  ELSE IF similarity.value > SimilarCutoff
    THEN IF custom_response.confidence > gpt_response.confidence
           THEN Returns(custom_response.text)
           ELSE Returns(gpt_response.text)
  ELSE IF Len(custom_response.text) > SubstantialLen
    THEN Returns(gpt_response.text \o "\n\n" \o custom_response.text)
  ELSE Returns(gpt_response.text)

\* similarity is the outcome of the two encode calls and the cosine:
\* Raises or Returns(similarity)
_create_hybrid_response(custom_response, gpt_response, similarity) ==
  IF ~similarity.ok THEN Raises
  ELSE IF similarity.value > SimilarCutoff
    THEN IF custom_response.confidence > StrongConfidence
           THEN Returns(custom_response.text)
           ELSE Returns(gpt_response.text)
  ELSE IF Len(custom_response.text) > SubstantialLen
    THEN Returns(gpt_response.text \o "\n\n" \o custom_response.text)
  ELSE Returns(gpt_response.text)

\* a plausible slip: the threshold is tested before the 0.3 floor
_merge_responses_threshold_first(custom_response, gpt_response, similarity, threshold) ==
  IF custom_response.confidence >= threshold
    THEN _create_hybrid_response(custom_response, gpt_response, similarity)
  ELSE Returns(gpt_response.text)

\* a plausible slip: a confidence equal to the threshold is not enough
_merge_responses_gt(custom_response, gpt_response, similarity, threshold) ==
  IF custom_response.confidence < LowConfidence
    THEN Returns(gpt_response.text)
  ELSE IF custom_response.confidence > threshold
    THEN _create_hybrid_response(custom_response, gpt_response, similarity)
  ELSE Returns(gpt_response.text)

\* the embedding model is called only when the hybrid branch is taken
_merge_responses(custom_response, gpt_response, similarity, threshold) ==
  IF custom_response.confidence < LowConfidence
    THEN Returns(gpt_response.text)
  ELSE IF custom_response.confidence >= threshold
    THEN _create_hybrid_response(custom_response, gpt_response, similarity)
  ELSE Returns(gpt_response.text)

generate_response(custom, gpt, similarity, threshold) ==
  _merge_responses(_generate_custom_response(custom), _generate_gpt_response(gpt),
                   similarity, threshold)

\* encoded is the outcome of embedding_model.encode([response])
get_response_metadata(response, encoded) ==
  IF encoded.ok
    THEN Returns([ length |-> Len(response), embedding |-> encoded.value ])
    ELSE Raises

(***************************************************************************)
(* CBTChatbotEngine: emotional state                                       *)
(***************************************************************************)
\* a plausible slip: the except branch falls through to the last label,
\* NEUTRAL
_detect_emotional_state_neutral(analyzer, sentiment) ==
  IF ~analyzer THEN "unknown"
  ELSE IF ~sentiment.ok THEN "neutral"
  ELSE IF {"anxiety", "anxious"} \cap sentiment.value.keys # {} THEN "anxious"
  ELSE IF {"depression", "sad"} \cap sentiment.value.keys # {} THEN "depressed"
  ELSE IF "stress" \in sentiment.value.keys THEN "stressed"
  ELSE IF ~sentiment.value.mapping THEN "unknown"
  ELSE IF sentiment.value.positive > 700 THEN "calm"
  ELSE "neutral"

\* sentiment is the outcome of sentiment_analyzer.analyze: Raises, or
\* Returns([mapping, keys, positive]) for the signal.  keys are the keywords
\* for which `keyword in sentiment` is true (keys of a mapping, substrings of
\* a text); mapping says whether the signal has a .get method, and positive
\* is what .get("positive", 0) then gives.  On a signal without .get the
\* fourth rule raises AttributeError, which the except clause turns into
\* UNKNOWN.
_detect_emotional_state(analyzer, sentiment) ==
  IF ~analyzer THEN "unknown"
  ELSE IF ~sentiment.ok THEN "unknown"
  ELSE IF {"anxiety", "anxious"} \cap sentiment.value.keys # {} THEN "anxious"
  ELSE IF {"depression", "sad"} \cap sentiment.value.keys # {} THEN "depressed"
  ELSE IF "stress" \in sentiment.value.keys THEN "stressed"
  ELSE IF ~sentiment.value.mapping THEN "unknown"
  ELSE IF sentiment.value.positive > 700 THEN "calm"
  ELSE "neutral"

\* a plausible slip: the label defaults to NEUTRAL when there is no analyzer
emotional_state_default_neutral(analyzer, sentiment) ==
  IF analyzer THEN _detect_emotional_state(analyzer, sentiment) ELSE "neutral"

\* process_message: emotional_state = UNKNOWN, replaced by what
\* _detect_emotional_state gives if an analyzer was supplied
emotional_state_for(analyzer, sentiment) ==
  IF analyzer THEN _detect_emotional_state(analyzer, sentiment) ELSE "unknown"

(***************************************************************************)
(* CBTChatbotEngine: the operations as functions of the store              *)
(***************************************************************************)
\* str(uuid.uuid4()): a random 128-bit id, taken never to repeat an earlier
\* one; ids are opaque, so the i-th id drawn is named Uuid(i)
uuid4_repeat(used) == IF used = {} THEN Uuid(1) ELSE CHOOSE id \in used : TRUE

uuid4(used) == Uuid(Cardinality(used) + 1)

\* self.sessions[session_id] = session
create_session(store, session_id, user_id, t1, t2) ==
  [ k \in DOMAIN store \cup {session_id} |->
      IF k = session_id THEN ChatSession(session_id, user_id, t1, t2) ELSE store[k] ]

\* a plausible slip: a missing id yields a new empty session, as a
\* defaultdict would
get_session_default(store, session_id) ==
  IF session_id \in DOMAIN store
    THEN Some(store[session_id])
    ELSE Some(ChatSession(session_id, "None", 0, 0))

\* self.sessions.get(session_id)
get_session(store, session_id) ==
  IF session_id \in DOMAIN store THEN Some(store[session_id]) ELSE None

\* a plausible slip: the whole registry is cleared
end_session_clear(store, session_id) ==
  IF session_id \in DOMAIN store
    THEN [ ret |-> TRUE, store |-> [ k \in {} |-> None ] ]
    ELSE [ ret |-> FALSE, store |-> store ]

end_session(store, session_id) ==
  IF session_id \in DOMAIN store
    THEN [ ret |-> TRUE,
           store |-> [ k \in DOMAIN store \ {session_id} |-> store[k] ] ]
    ELSE [ ret |-> FALSE, store |-> store ]

\* (last_active - created_at).seconds // 60: timedelta.seconds is the part of
\* the span below one day
duration_minutes(session) ==
  ((session.last_active - session.created_at) % SecondsPerDay) \div 60

get_session_summary(store, session_id) ==
  LET session == get_session(store, session_id)
  IN  IF ~session.found THEN None
      ELSE Some([ session_id |-> session.value.session_id,
                  created_at |-> session.value.created_at,
                  last_active |-> session.value.last_active,
                  message_count |-> Len(session.value.conversation_history),
                  duration_minutes |-> duration_minutes(session.value) ])

get_conversation_export(store, session_id) ==
  LET session == get_session(store, session_id)
  IN  IF ~session.found THEN None
      ELSE LET h == session.value.conversation_history
           IN  Some([ i \in 1..Len(h) |->
                        [ timestamp |-> h[i].timestamp,
                          user |-> h[i].user_message,
                          assistant |-> h[i].bot_response,
                          emotional_state |-> h[i].emotional_state ] ])

\* The session process_message works on: the stored one, or a new one under a
\* fresh id (fresh is what uuid4 returns if it is called).
\* a plausible slip: the new session is stored under the id the caller sent
resolve_session_keep_id(store, session_id, fresh, t) ==
  IF session_id \in DOMAIN store
    THEN [ session_id |-> session_id, store |-> store, created |-> FALSE ]
    ELSE [ session_id |-> session_id,
           store |-> create_session(store, session_id, "None", t, t),
           created |-> TRUE ]

resolve_session(store, session_id, fresh, t) ==
  IF session_id \in DOMAIN store
    THEN [ session_id |-> session_id, store |-> store, created |-> FALSE ]
    ELSE [ session_id |-> fresh,
           store |-> create_session(store, fresh, "None", t, t),
           created |-> TRUE ]

\* a plausible slip: the turn is stored with the confidence the custom
\* backend reported for its reply
process_message_custom_confidence(store, session_id, user_message, analyzer, threshold, t, fresh, io) ==
  LET r == resolve_session(store, session_id, fresh, t)
      sid == r.session_id
      session == r.store[sid]
      emotional_state == emotional_state_for(analyzer, io.sentiment)
      history == get_recent_history(session, HistoryWindow)
      response == generate_response(io.custom, io.gpt, io.similarity, threshold)
  IN  IF ~response.ok
        THEN [ store |-> r.store, session_id |-> sid, created |-> r.created,
               history |-> history, appended |-> FALSE, ret |-> Raises ]
      ELSE
        LET store2 ==
              [ r.store EXCEPT
                  ![sid] = add_turn(session, user_message, response.value,
                                    emotional_state,
                                    _generate_custom_response(io.custom).confidence,
                                    t, t) ]
            metadata == get_response_metadata(response.value, io.encoded)
        IN  IF ~metadata.ok
              THEN [ store |-> store2, session_id |-> sid, created |-> r.created,
                     history |-> history, appended |-> TRUE, ret |-> Raises ]
            ELSE [ store |-> store2, session_id |-> sid, created |-> r.created,
                   history |-> history, appended |-> TRUE,
                   ret |-> Returns(
                     [ session_id |-> sid,
                       response |-> response.value,
                       emotional_state |-> emotional_state,
                       conversation_length |-> Len(store2[sid].conversation_history),
                       metadata |-> metadata.value ]) ]

\* a plausible slip: last_active is set as soon as the session is found,
\* before the reply is generated
process_message_touch_first(store, session_id, user_message, analyzer, threshold, t, fresh, io) ==
  LET r == resolve_session(store, session_id, fresh, t)
      sid == r.session_id
      touched == [ r.store EXCEPT ![sid] = set_last_active(@, t) ]
      session == touched[sid]
      emotional_state == emotional_state_for(analyzer, io.sentiment)
      history == get_recent_history(session, HistoryWindow)
      response == generate_response(io.custom, io.gpt, io.similarity, threshold)
  IN  IF ~response.ok
        THEN [ store |-> touched, session_id |-> sid, created |-> r.created,
               history |-> history, appended |-> FALSE, ret |-> Raises ]
      ELSE
        LET store2 ==
              [ touched EXCEPT
                  ![sid] = add_turn(session, user_message, response.value,
                                    emotional_state, 0, t, t) ]
            metadata == get_response_metadata(response.value, io.encoded)
        IN  [ store |-> store2, session_id |-> sid, created |-> r.created,
              history |-> history, appended |-> TRUE,
              ret |-> IF ~metadata.ok THEN Raises
                      ELSE Returns(
                        [ session_id |-> sid,
                          response |-> response.value,
                          emotional_state |-> emotional_state,
                          conversation_length |-> Len(store2[sid].conversation_history),
                          metadata |-> metadata.value ]) ]

\* fresh is what uuid4 gives if it is called, io what the other collaborators
\* give during this call. The result: the store afterwards, the id worked on,
\* the history handed to generate_response, whether a turn was appended, and
\* what the caller gets (Raises or Returns(result)).
process_message(store, session_id, user_message, analyzer, threshold, t, fresh, io) ==
  LET r == resolve_session(store, session_id, fresh, t)
      sid == r.session_id
      session == r.store[sid]
      emotional_state == emotional_state_for(analyzer, io.sentiment)
      history == get_recent_history(session, HistoryWindow)
      response == generate_response(io.custom, io.gpt, io.similarity, threshold)
  IN  IF ~response.ok
        THEN [ store |-> r.store, session_id |-> sid, created |-> r.created,
               history |-> history, appended |-> FALSE, ret |-> Raises ]
      ELSE
        LET store2 ==
              [ r.store EXCEPT
                  ![sid] = add_turn(session, user_message, response.value,
                                    emotional_state, 0, t, t) ]
            metadata == get_response_metadata(response.value, io.encoded)
        IN  IF ~metadata.ok
              THEN [ store |-> store2, session_id |-> sid, created |-> r.created,
                     history |-> history, appended |-> TRUE, ret |-> Raises ]
            ELSE [ store |-> store2, session_id |-> sid, created |-> r.created,
                   history |-> history, appended |-> TRUE,
                   ret |-> Returns(
                     [ session_id |-> sid,
                       response |-> response.value,
                       emotional_state |-> emotional_state,
                       conversation_length |-> Len(store2[sid].conversation_history),
                       metadata |-> metadata.value ]) ]

(***************************************************************************)
(* Spec: one caller, every call runs to completion                         *)
(***************************************************************************)
\* What the collaborators give during one call of the engine: the analyzer's
\* signal, the two backends' replies, the cosine of the two embeddings and
\* the encoding of the final reply.
Io(sentiment, custom, gpt, similarity, encoded) ==
  [ sentiment |-> sentiment, custom |-> custom, gpt |-> gpt,
    similarity |-> similarity, encoded |-> encoded ]

SpecIo ==
  { \* both backends answer and agree, the custom reply is trusted
    Io(Returns([ mapping |-> TRUE, keys |-> {"anxiety"}, positive |-> 0 ]),
       Returns(<< Text51, 850 >>), Returns("X"), Returns(900), Returns("vector")),
    \* the embedding model fails inside the hybrid branch
    Io(Raises, Returns(<< Text51, 850 >>), Returns("X"), Raises, Returns("vector")),
    \* the analyzer and the custom model fail, and so does the embedding model
    \* when the metadata is built
    Io(Raises, Raises, Returns("X"), Raises, Raises) }

\* ids a caller can submit: the ones it was given, and made-up ones
CallerIds == issued \cup ForeignIds

TotalTurns(store) ==
  LET RECURSIVE Sum(_)
      Sum(S) ==
        IF S = {} THEN 0
        ELSE LET k == CHOOSE x \in S : TRUE
             IN  Len(store[k].conversation_history) + Sum(S \ {k})
  IN  Sum(DOMAIN store)

NoThreads == [ t \in {} |-> None ]

NoMerge == [ phase |-> "off" ]

\* the engine as main.py, console_chat.py and the tests construct it: no
\* sentiment analyzer
Init ==
  /\ sessions = [ k \in {} |-> None ]
  /\ sentiment_analyzer = FALSE
  /\ confidence_threshold = DefaultThreshold
  /\ issued = {}
  /\ now = 0
  /\ last = [ op |-> "init" ]
  /\ ended = {}
  /\ log = [ k \in {} |-> << >> ]
  /\ unreported = {}
  /\ merge = NoMerge
  /\ threads = NoThreads
  /\ detached = [ k \in {} |-> None ]

\* the wall clock moves on between calls
Tick ==
  /\ \E t \in ClockReadings :
       /\ t > now
       /\ \A u \in ClockReadings : u > now => t <= u
       /\ now' = t
  /\ last' = [ op |-> "tick" ]
  /\ UNCHANGED << sessions, sentiment_analyzer, confidence_threshold, issued,
                  ended, log, unreported, merge, threads,
       detached >>

CreateSession(user_id) ==
  /\ Cardinality(issued) < MaxIssued
  /\ LET id == uuid4(issued)
     IN
       /\ sessions' = create_session(sessions, id, user_id, now, now)
       /\ issued' = issued \cup {id}
       /\ log' = [ k \in DOMAIN log \cup {id} |-> IF k \in DOMAIN log THEN log[k] ELSE << >> ]
       /\ last' = [ op |-> "create_session", arg |-> user_id, ret |-> id ]
  /\ UNCHANGED << sentiment_analyzer, confidence_threshold, now, ended,
                  unreported, merge, threads,
       detached >>

\* a plausible slip: the lookup stores a new session under a missing id, as
\* dict.setdefault would
GetSession_inserting(session_id) ==
  /\ sessions' =
       IF session_id \in DOMAIN sessions THEN sessions
       ELSE create_session(sessions, session_id, "None", now, now)
  /\ last' = [ op |-> "get_session",
               found |-> get_session(sessions, session_id).found ]
  /\ UNCHANGED << sentiment_analyzer, confidence_threshold, issued, now, ended,
                  log, unreported, merge, threads,
       detached >>

GetSession(session_id) ==
  /\ last' = [ op |-> "get_session",
               found |-> get_session(sessions, session_id).found ]
  /\ UNCHANGED << sessions, sentiment_analyzer, confidence_threshold, issued,
                  now, ended, log, unreported, merge, threads,
       detached >>

GetSessionSummary(session_id) ==
  /\ last' = [ op |-> "get_session_summary",
               found |-> get_session_summary(sessions, session_id).found ]
  /\ UNCHANGED << sessions, sentiment_analyzer, confidence_threshold, issued,
                  now, ended, log, unreported, merge, threads,
       detached >>

GetConversationExport(session_id) ==
  /\ last' = [ op |-> "get_conversation_export",
               found |-> get_conversation_export(sessions, session_id).found ]
  /\ UNCHANGED << sessions, sentiment_analyzer, confidence_threshold, issued,
                  now, ended, log, unreported, merge, threads,
       detached >>

EndSession(session_id) ==
  LET r == end_session(sessions, session_id)
  IN  /\ sessions' = r.store
      /\ ended' = IF r.ret THEN ended \cup {session_id} ELSE ended
      /\ log' = [ k \in DOMAIN r.store |-> log[k] ]
      /\ unreported' = unreported \cap DOMAIN r.store
      /\ last' = [ op |-> "end_session", arg |-> session_id, ret |-> r.ret ]
      /\ UNCHANGED << sentiment_analyzer, confidence_threshold, issued, now,
                      merge, threads,
       detached >>

ProcessMessage(session_id, user_message) ==
  /\ TotalTurns(sessions) < MaxTurns
  /\ session_id \notin DOMAIN sessions => Cardinality(issued) < MaxIssued
  /\ \E io \in SpecIo :
       LET fresh == uuid4(issued)
           r == process_message(sessions, session_id, user_message,
                                sentiment_analyzer, confidence_threshold, now,
                                fresh, io)
           log1 == [ k \in DOMAIN log \cup {r.session_id} |->
                       IF k \in DOMAIN log THEN log[k] ELSE << >> ]
       IN  /\ sessions' = r.store
           /\ issued' = IF r.created THEN issued \cup {r.session_id} ELSE issued
           /\ log' = IF r.ret.ok
                       THEN [ log1 EXCEPT ![r.session_id] =
                                Append(@, [ user |-> user_message,
                                            conversation_length |->
                                              r.ret.value.conversation_length ]) ]
                       ELSE log1
           /\ unreported' = IF r.appended /\ ~r.ret.ok
                              THEN unreported \cup {r.session_id} ELSE unreported
           /\ last' = [ op |-> "process_message", arg |-> session_id,
                        user_message |-> user_message, io |-> io, ret |-> r.ret ]
  /\ UNCHANGED << sentiment_analyzer, confidence_threshold, now, ended, merge,
                  threads,
       detached >>

Next ==
  \/ \E user_id \in UserIds : CreateSession(user_id)
  \/ \E session_id \in CallerIds : GetSession(session_id)
  \/ \E session_id \in CallerIds : GetSessionSummary(session_id)
  \/ \E session_id \in CallerIds : GetConversationExport(session_id)
  \/ \E session_id \in CallerIds : EndSession(session_id)
  \/ \E session_id \in CallerIds, user_message \in Messages :
       ProcessMessage(session_id, user_message)

Spec == Init /\ [][Next]_vars

\* the engine constructed with a sentiment analyzer
InitAnalyzer ==
  /\ sessions = [ k \in {} |-> None ]
  /\ sentiment_analyzer = TRUE
  /\ confidence_threshold = DefaultThreshold
  /\ issued = {}
  /\ now = 0
  /\ last = [ op |-> "init" ]
  /\ ended = {}
  /\ log = [ k \in {} |-> << >> ]
  /\ unreported = {}
  /\ merge = NoMerge
  /\ threads = NoThreads
  /\ detached = [ k \in {} |-> None ]

SpecAnalyzer == InitAnalyzer /\ [][Next]_vars

(***************************************************************************)
(* Claims about the session store (checked under Spec)                     *)
(***************************************************************************)
ReadOps == { "get_session", "get_session_summary", "get_conversation_export" }

\* C1: for every stored session all of whose appending calls returned, the
\* export has exactly one entry per returned process_message call, the user
\* texts are the submitted messages in submission order, and the k-th call
\* returned conversation_length k.
C1_ExportMatchesSubmissions ==
  \A id \in DOMAIN sessions :
    id \notin unreported =>
      LET export == get_conversation_export(sessions, id)
      IN  /\ export.found
          /\ Len(export.value) = Len(log[id])
          /\ \A k \in 1..Len(log[id]) :
               /\ export.value[k].user = log[id][k].user
               /\ log[id][k].conversation_length = k

\* two different messages were processed on one session and it was exported
C1_Witness ==
  /\ last.op = "get_conversation_export"
  /\ last.found
  /\ \E id \in DOMAIN sessions :
       /\ id \notin unreported
       /\ Len(log[id]) = 2
       /\ log[id][1].user # log[id][2].user

\* C2: process_message with an id that is not in the store fails only if the
\* merge or the metadata fails; it creates a session under an id never issued
\* before and different from the submitted one, the submitted id is not
\* added, and a returned result names the new id, which holds one turn.
C2_UnknownIdRecovers ==
  [][ (last'.op = "process_message" /\ last'.arg \notin DOMAIN sessions) =>
        LET new == uuid4(issued)
            io == last'.io
            response == generate_response(io.custom, io.gpt, io.similarity,
                                          confidence_threshold)
        IN  /\ new \notin issued
            /\ new # last'.arg
            /\ DOMAIN sessions' = DOMAIN sessions \cup {new}
            /\ last'.arg \notin DOMAIN sessions'
            /\ last'.ret.ok <=>
                 (response.ok /\ get_response_metadata(response.value, io.encoded).ok)
            /\ last'.ret.ok =>
                 /\ last'.ret.value.session_id = new
                 /\ Len(sessions'[new].conversation_history) = 1
                 /\ sessions'[new].conversation_history[1].user_message
                      = last'.user_message
                 /\ last'.ret.value.conversation_length = 1
    ]_vars

\* a message sent to an ended id came back with a result
C2_Witness ==
  /\ last.op = "process_message"
  /\ last.arg \in ended
  /\ last.ret.ok

\* C3: an id for which end_session has returned True is never a key of the
\* store again.
C3_EndedIsTerminal == ended \cap DOMAIN sessions = {}

\* a message was processed for an id that had been ended
C3_Witness ==
  /\ last.op = "process_message"
  /\ last.arg \in ended
  /\ DOMAIN sessions # {}

\* C4: end_session on a stored id returns True and removes that session
\* alone; on any other id, so on every id ended before, it returns False and
\* changes nothing.
C4_EndSessionRemovesExactlyOne ==
  [][ last'.op = "end_session" =>
        LET id == last'.arg
        IN  /\ id \in DOMAIN sessions =>
                 /\ last'.ret = TRUE
                 /\ DOMAIN sessions' = DOMAIN sessions \ {id}
                 /\ \A k \in DOMAIN sessions' : sessions'[k] = sessions[k]
            /\ id \notin DOMAIN sessions =>
                 /\ last'.ret = FALSE
                 /\ sessions' = sessions
            /\ id \in ended => last'.ret = FALSE
    ]_vars

\* end_session was repeated on an ended id while another session is stored
C4_Witness ==
  /\ last.op = "end_session"
  /\ last.arg \in ended
  /\ last.ret = FALSE
  /\ \E k \in DOMAIN sessions : sessions[k].conversation_history # << >>

\* C5: for an id that is not in the store the three lookups give None and
\* end_session gives False and leaves the store as it is.
C5_NotFoundIsAValue ==
  \A id \in (Uuids \cup ForeignIds) \ DOMAIN sessions :
    /\ get_session(sessions, id) = None
    /\ get_session_summary(sessions, id) = None
    /\ get_conversation_export(sessions, id) = None
    /\ end_session(sessions, id) = [ ret |-> FALSE, store |-> sessions ]

\* a summary was asked for an id that is not stored, beside a stored session
C5_Witness ==
  /\ last.op = "get_session_summary"
  /\ ~last.found
  /\ ended # {}
  /\ DOMAIN sessions # {}

\* C6: create_session returns a non-empty id that is neither stored nor issued
\* before; afterwards the store maps it to a session with no turns and the
\* given owner, and every other session is as it was.
C6_CreateSessionIsFresh ==
  [][ last'.op = "create_session" =>
        LET id == last'.ret
        IN  /\ id # ""
            /\ id \notin DOMAIN sessions
            /\ id \notin issued
            /\ DOMAIN sessions' = DOMAIN sessions \cup {id}
            /\ sessions'[id].session_id = id
            /\ sessions'[id].conversation_history = << >>
            /\ sessions'[id].user_id = last'.arg
            /\ \A k \in DOMAIN sessions : sessions'[k] = sessions[k]
    ]_vars

\* a session was created beside one that already holds a turn
C6_Witness ==
  /\ last.op = "create_session"
  /\ \E k \in DOMAIN sessions :
       /\ k # last.ret
       /\ sessions[k].conversation_history # << >>

\* C21: get_session, get_session_summary and get_conversation_export, on a
\* stored id or not, leave the store as it is: the same ids, and every
\* session with the same turns, timestamps and context.
C21_ReadsAreReadOnly ==
  [][ last'.op \in ReadOps =>
        /\ DOMAIN sessions' = DOMAIN sessions
        /\ \A k \in DOMAIN sessions :
             /\ sessions'[k].conversation_history = sessions[k].conversation_history
             /\ sessions'[k].created_at = sessions[k].created_at
             /\ sessions'[k].last_active = sessions[k].last_active
             /\ sessions'[k].context = sessions[k].context
    ]_vars

\* a lookup of an id that is not stored was made beside a session with a turn
C21_Witness ==
  /\ last.op = "get_session"
  /\ ~last.found
  /\ \E k \in DOMAIN sessions : Len(sessions[k].conversation_history) = 1

\* the id process_message works on: the submitted one if stored, a new one
\* otherwise
TargetId == IF last'.arg \in DOMAIN sessions THEN last'.arg ELSE uuid4(issued)

\* C22: process_message leaves the turns its session held as they were: the
\* old sequence is a prefix of the new one, which is one turn longer when
\* the merge returned a reply (and the same when the merge raised); the turn
\* sequences of all other sessions are unchanged.
C22_TurnsAreAppendOnly ==
  [][ last'.op = "process_message" =>
        LET sid == TargetId
            old == IF sid \in DOMAIN sessions
                     THEN sessions[sid].conversation_history ELSE << >>
            new == sessions'[sid].conversation_history
            io == last'.io
            response == generate_response(io.custom, io.gpt, io.similarity,
                                          confidence_threshold)
        IN  /\ Len(new) = Len(old) + (IF response.ok THEN 1 ELSE 0)
            /\ SubSeq(new, 1, Len(old)) = old
            /\ \A k \in DOMAIN sessions \ {sid} :
                 /\ k \in DOMAIN sessions'
                 /\ sessions'[k].conversation_history
                      = sessions[k].conversation_history
    ]_vars

\* a second, different turn was appended to a session beside another session
C22_Witness ==
  /\ last.op = "process_message"
  /\ last.ret.ok
  /\ last.arg \in DOMAIN sessions
  /\ Cardinality(DOMAIN sessions) = 2
  /\ LET h == sessions[last.arg].conversation_history
     IN  /\ Len(h) = 2
         /\ h[1] # h[2]

\* C23: a stored session leaves the store only in an end_session call on its
\* own id; no other call, and no end_session on another id, removes it.
C23_OnlyEndSessionRemoves ==
  [][ \A k \in DOMAIN sessions \ DOMAIN sessions' :
        /\ last'.op = "end_session"
        /\ last'.arg = k
    ]_vars

\* a session was ended and another one, holding a turn, stayed
C23_Witness ==
  /\ last.op = "end_session"
  /\ last.ret = TRUE
  /\ \E k \in DOMAIN sessions :
       /\ k # last.arg
       /\ Len(sessions[k].conversation_history) = 1

\* C25: for every stored session the summary's message_count, the number of
\* exported entries and the number of process_message calls that returned a
\* result for its id are the same.
C25_CountsAgree ==
  \A id \in DOMAIN sessions :
    /\ get_session_summary(sessions, id).value.message_count
         = Len(get_conversation_export(sessions, id).value)
    /\ get_session_summary(sessions, id).value.message_count = Len(log[id])

\* C31: a process_message call with an id that is not stored, which then
\* raises, leaves the store with the ids it had before the call.
C31_FailedCallLeavesNoSession ==
  [][ ( /\ last'.op = "process_message"
        /\ last'.arg \notin DOMAIN sessions
        /\ ~last'.ret.ok ) =>
        DOMAIN sessions' = DOMAIN sessions
    ]_vars

\* C32: every turn of a stored session was reported: the call that appended
\* the k-th turn returned a result, with that message and length k.
C32_EveryTurnWasReported ==
  \A id \in DOMAIN sessions :
    LET h == sessions[id].conversation_history
    IN  \A k \in 1..Len(h) :
          \E j \in 1..Len(log[id]) :
            /\ log[id][j].user = h[k].user_message
            /\ log[id][j].conversation_length = k

\* C33: every process_message call with an id that is never stored creates
\* one session under an id not issued before, so the store grows by one and
\* the sessions it held are as they were; a returned result names the new
\* session with conversation_length 1, and the new session holds at most
\* one turn.
C33_StaleIdAlwaysStartsAfresh ==
  [][ (last'.op = "process_message" /\ last'.arg \in ForeignIds) =>
        LET new == uuid4(issued)
        IN  /\ new \notin issued
            /\ new \notin DOMAIN sessions
            /\ DOMAIN sessions' = DOMAIN sessions \cup {new}
            /\ Cardinality(DOMAIN sessions') = Cardinality(DOMAIN sessions) + 1
            /\ \A k \in DOMAIN sessions : sessions'[k] = sessions[k]
            /\ Len(sessions'[new].conversation_history) <= 1
            /\ last'.ret.ok =>
                 /\ last'.ret.value.session_id = new
                 /\ last'.ret.value.conversation_length = 1
    ]_vars

\* the stale id was submitted a second time: the store holds two sessions of
\* one turn each, and the call returned the second one
C33_Witness ==
  /\ last.op = "process_message"
  /\ last.arg \in ForeignIds
  /\ last.ret.ok
  /\ Cardinality(DOMAIN sessions) = 2
  /\ \A k \in DOMAIN sessions :
       /\ sessions[k].user_id = "None"
       /\ Len(sessions[k].conversation_history) = 1
  /\ last.ret.value.session_id = Uuid(2)

\* C34: every key of the store is the session_id of the session stored under
\* it and is an id uuid4 gave out, never one a caller made up.
C34_StoreIsKeyedConsistently ==
  \A k \in DOMAIN sessions :
    /\ sessions[k].session_id = k
    /\ k \in issued
    /\ k \notin ForeignIds

\* a session made by create_session and one made by process_message for a
\* made-up id are stored side by side
C34_Witness ==
  /\ last.op = "process_message"
  /\ last.arg \in ForeignIds
  /\ \E k \in DOMAIN sessions : sessions[k].user_id = "user-1"
  /\ \E k \in DOMAIN sessions : sessions[k].user_id = "None"

\* C24 (checked under SpecAnalyzer): a result returned by process_message
\* names a session that is stored when the call returns; its response and
\* emotional_state are the bot text and the label of that session's last
\* turn, and its conversation_length is the number of turns the session
\* then holds.
C24_ResultDescribesState ==
  [][ (last'.op = "process_message" /\ last'.ret.ok) =>
        LET result == last'.ret.value
        IN  /\ result.session_id \in DOMAIN sessions'
            /\ LET h == sessions'[result.session_id].conversation_history
               IN  /\ Len(h) >= 1
                   /\ result.response = h[Len(h)].bot_response
                   /\ result.emotional_state = h[Len(h)].emotional_state
                   /\ result.conversation_length = Len(h)
    ]_vars

\* the second message of a session came back labelled anxious
C24_Witness ==
  /\ last.op = "process_message"
  /\ last.ret.ok
  /\ last.ret.value.emotional_state = "anxious"
  /\ last.ret.value.conversation_length = 2

(***************************************************************************)
(* SpecMerge: generate_response on bounded backend outcomes                *)
(***************************************************************************)
MergeConfidences == { 0, 200, 250, 299, 300, 500, 699, 700, 800, 801, 850, 1000 }

MergeTexts == { "", "short", "X", Text50, Text51 }

MergeCustoms ==
  { Raises } \cup { Returns(<< text, c >>) : text \in MergeTexts, c \in MergeConfidences }

MergeGpts == { Raises, Returns("X") }

MergeSimilarities ==
  { Raises, Returns(-100), Returns(500), Returns(850), Returns(851), Returns(1000) }

MergeThresholds == { 200, 300, DefaultThreshold, 800, 900 }

InitMerge ==
  /\ sessions = [ k \in {} |-> None ]
  /\ sentiment_analyzer = FALSE
  /\ confidence_threshold \in MergeThresholds
  /\ issued = {}
  /\ now = 0
  /\ last = [ op |-> "init" ]
  /\ ended = {}
  /\ log = [ k \in {} |-> << >> ]
  /\ unreported = {}
  /\ threads = NoThreads
  /\ detached = [ k \in {} |-> None ]
  /\ \E custom \in MergeCustoms, gpt \in MergeGpts, similarity \in MergeSimilarities :
       merge = [ phase |-> "called", custom |-> custom, gpt |-> gpt,
                 similarity |-> similarity ]

GenerateResponse ==
  /\ merge.phase = "called"
  /\ LET custom_response == _generate_custom_response(merge.custom)
         gpt_response == _generate_gpt_response(merge.gpt)
     IN  merge' = [ phase |-> "merged",
                    custom |-> merge.custom,
                    gpt |-> merge.gpt,
                    similarity |-> merge.similarity,
                    custom_response |-> custom_response,
                    gpt_response |-> gpt_response,
                    final_response |->
                      _merge_responses(custom_response, gpt_response,
                                       merge.similarity, confidence_threshold) ]
  /\ UNCHANGED << sessions, sentiment_analyzer, confidence_threshold, issued,
                  now, last, ended, log, unreported, threads,
       detached >>

NextMerge == GenerateResponse

SpecMerge == InitMerge /\ [][NextMerge]_vars

\* C9: when the custom candidate's confidence is below 0.3 the merge returns
\* the general candidate's text, whatever the custom text, the threshold and
\* the outcome of the embedding model (which is not called).
C9_LowConfidenceReturnsGpt ==
  (merge.phase = "merged" /\ merge.custom_response.confidence < LowConfidence) =>
    merge.final_response = Returns(merge.gpt_response.text)

\* a custom reply at 0.25 with the threshold at 0.2 and a failing embedding model
C9_Witness ==
  /\ merge.phase = "merged"
  /\ merge.custom_response.confidence = 250
  /\ merge.custom_response.text = Text51
  /\ confidence_threshold = 200
  /\ ~merge.similarity.ok
  /\ merge.final_response.ok

InHybridBranch ==
  /\ merge.custom_response.confidence >= LowConfidence
  /\ merge.custom_response.confidence >= confidence_threshold

\* C11: in the hybrid branch with similarity at most 0.85 the merge returns
\* the general text, a blank line and the custom text if the custom text is
\* longer than 50 characters, and the general text alone otherwise (so at
\* exactly 50 characters).
C11_DivergentBranch ==
  ( /\ merge.phase = "merged"
    /\ InHybridBranch
    /\ merge.similarity.ok
    /\ merge.similarity.value <= SimilarCutoff ) =>
    merge.final_response =
      Returns(IF Len(merge.custom_response.text) > SubstantialLen
                THEN merge.gpt_response.text \o "\n\n" \o merge.custom_response.text
                ELSE merge.gpt_response.text)

\* a custom text of exactly 50 characters at similarity exactly 0.85 gave
\* the general text alone
C11_Witness ==
  /\ merge.phase = "merged"
  /\ InHybridBranch
  /\ merge.similarity = Returns(SimilarCutoff)
  /\ Len(merge.custom_response.text) = SubstantialLen
  /\ merge.final_response = Returns(merge.gpt_response.text)

C13_BackendFailuresAreCaught ==
  merge.phase = "merged" =>
    /\ ~merge.custom.ok =>
         /\ merge.custom_response.text = ""
         /\ merge.custom_response.confidence = 0
         /\ merge.final_response = Returns(merge.gpt_response.text)
    /\ ~merge.gpt.ok =>
         /\ merge.gpt_response.text = FallbackText
         /\ merge.gpt_response.confidence = FallbackConfidence
         /\ merge.similarity.ok => merge.final_response.ok
    /\ (~merge.custom.ok /\ ~merge.gpt.ok) =>
         merge.final_response = Returns(FallbackText)

\* both backends failed, and the embedding model with them
C13_Witness ==
  /\ merge.phase = "merged"
  /\ ~merge.custom.ok
  /\ ~merge.gpt.ok
  /\ ~merge.similarity.ok
  /\ merge.final_response = Returns(FallbackText)

\* C26: in the hybrid branch with similarity above 0.85 the merge returns
\* the text of the candidate whose confidence is the higher one, the general
\* candidate being at 0.9 (a reply) or at 0.5 (the fallback).
C26_HigherConfidenceWins ==
  ( /\ merge.phase = "merged"
    /\ InHybridBranch
    /\ merge.similarity.ok
    /\ merge.similarity.value > SimilarCutoff ) =>
    /\ merge.custom_response.confidence > merge.gpt_response.confidence =>
         merge.final_response = Returns(merge.custom_response.text)
    /\ merge.gpt_response.confidence > merge.custom_response.confidence =>
         merge.final_response = Returns(merge.gpt_response.text)

CandidateSources == { "custom_cbt_model", "gpt4", "gpt4_fallback" }

NumThreads == 2

Threads == 1..NumThreads

Idle == [ pc |-> "idle" ]

\* a plausible slip: one history list shared by all sessions (a mutable
\* default), so a turn appended through one session shows in all
store_append_shared(store, sid, turn) ==
  [ k \in DOMAIN store |-> append_turn(store[k], turn) ]

\* session.conversation_history.append(turn), session being the object stored
\* under sid
store_append(store, sid, turn) ==
  [ store EXCEPT ![sid] = append_turn(store[sid], turn) ]

\* the ids the threads submit: the two stored at the start and a made-up one
ConcIds == { Uuid(1), Uuid(2) } \cup ForeignIds

\* each thread sends a message of its own
ConcMessage(t) == "message " \o ToString(t)

\* the collaborators answer, or the embedding model fails on the metadata
ConcIo ==
  { Io(Raises, Returns(<< Text51, 850 >>), Returns("X"), Returns(900), Returns("vector")),
    Io(Raises, Raises, Returns("X"), Raises, Raises) }

\* two sessions exist, the engine has no analyzer, no call is under way
InitConc ==
  /\ sessions =
       create_session(
         create_session([ k \in {} |-> None ], Uuid(1), "user-1", 0, 0),
         Uuid(2), "user-1", 0, 0)
  /\ sentiment_analyzer = FALSE
  /\ confidence_threshold = DefaultThreshold
  /\ issued = { Uuid(1), Uuid(2) }
  /\ now = 0
  /\ last = [ op |-> "init" ]
  /\ ended = {}
  /\ log = [ k \in { Uuid(1), Uuid(2) } |-> << >> ]
  /\ unreported = {}
  /\ merge = NoMerge
  /\ threads = [ t \in Threads |-> Idle ]
  /\ detached = [ k \in {} |-> None ]

ConcUnchanged ==
  UNCHANGED << sentiment_analyzer, confidence_threshold, now, last, ended, log,
               unreported, merge >>

Started == { t \in Threads : threads[t].pc # "idle" }

\* the ChatSession object a call's local variable session refers to: the one
\* stored under sid, or the one that was stored under it until it was deleted
session_object(sid) ==
  IF sid \in DOMAIN sessions THEN sessions[sid] ELSE detached[sid]

\* thread t enters process_message(session_id, user_message); ticket is its
\* place in the order of submission and start the session as the call found it
Call(t, session_id, user_message, io) ==
  /\ threads[t].pc = "idle"
  /\ threads' =
       [ threads EXCEPT ![t] =
           [ pc |-> "lookup", arg |-> session_id, user_message |-> user_message,
             io |-> io, ticket |-> Cardinality(Started) + 1,
             start |-> get_session(sessions, session_id) ] ]
  /\ UNCHANGED << sessions, issued, detached >>
  /\ ConcUnchanged

\* session = self.get_session(session_id)
Lookup(t) ==
  /\ threads[t].pc = "lookup"
  /\ LET session == get_session(sessions, threads[t].arg)
     IN  threads' =
           [ threads EXCEPT ![t] =
               IF session.found
                 THEN [ @ EXCEPT !.pc = "generate" ] @@ [ sid |-> threads[t].arg ]
                 ELSE [ @ EXCEPT !.pc = "create" ] ]
  /\ UNCHANGED << sessions, issued, detached >>
  /\ ConcUnchanged

\* session_id = self.create_session(); session = self.get_session(session_id)
Create(t) ==
  /\ threads[t].pc = "create"
  /\ LET id == uuid4(issued)
     IN  /\ sessions' = create_session(sessions, id, "None", now, now)
         /\ issued' = issued \cup {id}
         /\ threads' = [ threads EXCEPT ![t] = [ @ EXCEPT !.pc = "generate" ] @@ [ sid |-> id ] ]
  /\ UNCHANGED detached
  /\ ConcUnchanged

\* emotional state, history = session.get_recent_history(), generate_response
Generate(t) ==
  /\ threads[t].pc = "generate"
  /\ LET th == threads[t]
         emotional_state == emotional_state_for(sentiment_analyzer, th.io.sentiment)
         response == generate_response(th.io.custom, th.io.gpt, th.io.similarity,
                                       confidence_threshold)
     IN  threads' =
           [ threads EXCEPT ![t] =
               IF response.ok
                 THEN [ @ EXCEPT !.pc = "append" ]
                        @@ [ emotional_state |-> emotional_state,
                             history |-> get_recent_history(session_object(th.sid),
                                                            HistoryWindow),
                             response |-> response.value ]
                 ELSE [ @ EXCEPT !.pc = "raised" ] ]
  /\ UNCHANGED << sessions, issued, detached >>
  /\ ConcUnchanged

\* add_turn: the turn is built and appended; pos is the place it lands at
\* and removed whether the session had left the store by then
AppendTurn(t) ==
  /\ threads[t].pc = "append"
  /\ LET th == threads[t]
         turn == ConversationTurn(th.user_message, th.response, now,
                                  th.emotional_state, 0)
     IN  /\ IF th.sid \in DOMAIN sessions
              THEN /\ sessions' = store_append(sessions, th.sid, turn)
                   /\ UNCHANGED detached
              ELSE /\ detached' = store_append(detached, th.sid, turn)
                   /\ UNCHANGED sessions
         /\ threads' =
              [ threads EXCEPT ![t] =
                  [ @ EXCEPT !.pc = "touch" ]
                    @@ [ pos |-> Len(session_object(th.sid).conversation_history) + 1,
                         removed |-> th.sid \notin DOMAIN sessions ] ]
  /\ UNCHANGED issued
  /\ ConcUnchanged

\* add_turn: self.last_active = datetime.now()
Touch(t) ==
  /\ threads[t].pc = "touch"
  /\ IF threads[t].sid \in DOMAIN sessions
       THEN /\ sessions' = [ sessions EXCEPT ![threads[t].sid] = set_last_active(@, now) ]
            /\ UNCHANGED detached
       ELSE /\ detached' = [ detached EXCEPT ![threads[t].sid] = set_last_active(@, now) ]
            /\ UNCHANGED sessions
  /\ threads' = [ threads EXCEPT ![t].pc = "return" ]
  /\ UNCHANGED issued
  /\ ConcUnchanged

\* the metadata is built and the result read off the session
Return(t) ==
  /\ threads[t].pc = "return"
  /\ LET th == threads[t]
         metadata == get_response_metadata(th.response, th.io.encoded)
     IN  threads' =
           [ threads EXCEPT ![t] =
               IF metadata.ok
                 THEN [ @ EXCEPT !.pc = "done" ]
                        @@ [ ret |->
                               [ session_id |-> th.sid,
                                 response |-> th.response,
                                 emotional_state |-> th.emotional_state,
                                 conversation_length |->
                                   Len(session_object(th.sid).conversation_history),
                                 metadata |-> metadata.value ] ]
                 ELSE [ @ EXCEPT !.pc = "raised" ] ]
  /\ UNCHANGED << sessions, issued, detached >>
  /\ ConcUnchanged

NextConc ==
  \/ \E t \in Threads, session_id \in ConcIds, io \in ConcIo :
       Call(t, session_id, ConcMessage(t), io)
  \/ \E t \in Threads : Lookup(t)
  \/ \E t \in Threads : Create(t)
  \/ \E t \in Threads : Generate(t)
  \/ \E t \in Threads : AppendTurn(t)
  \/ \E t \in Threads : Touch(t)
  \/ \E t \in Threads : Return(t)

SpecConc == InitConc /\ [][NextConc]_vars

\* the threads whose turn is in a session
Appended == { t \in Threads : threads[t].pc \in { "touch", "return", "done" } }

\* C7: calls running concurrently on one session append their turns in the
\* order of submission, and each returns the 1-based place of its own turn
\* as conversation_length.
C7_SameSessionCallsSerialize ==
  \A t \in Threads :
    threads[t].pc = "done" =>
      /\ threads[t].ret.conversation_length = threads[t].pos
      /\ \A u \in Appended :
           (threads[u].sid = threads[t].sid /\ threads[u].ticket < threads[t].ticket)
             => threads[u].pos < threads[t].pos

\* C8: a call on a stored session that no other call is aimed at ends as it
\* would have ended alone: the same result, or the same failure, and the
\* same session, however the other calls' steps fall between its own.
C8_DifferentSessionsDoNotInterfere ==
  \A t \in Threads :
    ( /\ threads[t].pc \in { "done", "raised" }
      /\ threads[t].start.found
      /\ \A u \in Started \ {t} : threads[u].arg # threads[t].arg ) =>
      LET th == threads[t]
          alone == process_message([ k \in {th.arg} |-> th.start.value ], th.arg,
                                   th.user_message, sentiment_analyzer,
                                   confidence_threshold, now, "unused", th.io)
      IN  /\ th.pc = "done" => alone.ret = Returns(th.ret)
          /\ th.pc = "raised" => ~alone.ret.ok
          /\ sessions[th.arg] = alone.store[th.arg]

\* a call finished on one stored session while a call submitted before it on
\* the other stored session was between its append and its return
C8_Witness ==
  /\ threads[1].pc = "done"
  /\ threads[2].pc = "return"
  /\ threads[2].ticket < threads[1].ticket
  /\ threads[1].start.found
  /\ threads[2].start.found
  /\ threads[1].arg # threads[2].arg

(***************************************************************************)
(* SpecChat: one conversation, long enough for the history window to       *)
(* matter, on an engine constructed with or without an analyzer.  The      *)
(* bookkeeping of Spec (log, unreported) is not kept here.                  *)
(***************************************************************************)
MaxChatTurns == 7       \* turns of the conversation

\* the n-th message of the conversation: every message is a text of its own
ChatMessage(n) == "message " \o ToString(n)

ChatIo ==
  { \* both backends answer and agree, the custom reply is trusted
    Io(Returns([ mapping |-> TRUE, keys |-> {"anxiety"}, positive |-> 0 ]),
       Returns(<< Text51, 850 >>), Returns("X"), Returns(900), Returns("vector")),
    \* the embedding model fails inside the hybrid branch
    Io(Raises, Returns(<< Text51, 850 >>), Returns("X"), Raises, Returns("vector")),
    \* the analyzer fails; the custom reply is of medium confidence and the
    \* embedding model would fail if the merge called it
    Io(Raises, Returns(<< "short", 500 >>), Returns("X"), Raises, Returns("vector")) }

InitChat ==
  /\ sessions = [ k \in {} |-> None ]
  /\ sentiment_analyzer \in BOOLEAN
  /\ confidence_threshold = DefaultThreshold
  /\ issued = {}
  /\ now = 0
  /\ last = [ op |-> "init" ]
  /\ ended = {}
  /\ log = [ k \in {} |-> << >> ]
  /\ unreported = {}
  /\ merge = NoMerge
  /\ threads = NoThreads
  /\ detached = [ k \in {} |-> None ]

\* the conversation's session is created
ChatCreate ==
  /\ issued = {}
  /\ \E user_id \in UserIds : CreateSession(user_id)

\* the next message of the conversation is processed
ChatProcess(session_id, io) ==
  /\ session_id \in DOMAIN sessions
  /\ Len(sessions[session_id].conversation_history) < MaxChatTurns
  /\ LET user_message ==
           ChatMessage(Len(sessions[session_id].conversation_history) + 1)
         r == process_message(sessions, session_id, user_message,
                              sentiment_analyzer, confidence_threshold, now,
                              uuid4(issued), io)
     IN  /\ sessions' = r.store
         /\ last' = [ op |-> "process_message", arg |-> session_id,
                      user_message |-> user_message, io |-> io,
                      history |-> r.history,
                      messages |-> _build_gpt_messages(user_message, r.history),
                      ret |-> r.ret ]
  /\ UNCHANGED << sentiment_analyzer, confidence_threshold, issued, now, ended,
                  log, unreported, merge, threads,
       detached >>

NextChat ==
  \/ ChatCreate
  \/ \E session_id \in issued, io \in ChatIo : ChatProcess(session_id, io)

SpecChat == InitChat /\ [][NextChat]_vars

\* the custom candidate of a call meets the floor and the threshold
CallInHybridBranch(io) ==
  LET custom_response == _generate_custom_response(io.custom)
  IN  /\ custom_response.confidence >= LowConfidence
      /\ custom_response.confidence >= confidence_threshold

\* C14: when the embedding model fails in a call whose merge takes the
\* hybrid branch, generate_response fails and so does process_message, and
\* no turn is stored; when the merge takes the low or the medium branch the
\* failing embedding model changes nothing: the reply is the general text
\* and the call returns it.
C14_EmbeddingFailurePropagates ==
  [][ (last'.op = "process_message" /\ ~last'.io.similarity.ok) =>
        LET io == last'.io
            response == generate_response(io.custom, io.gpt, io.similarity,
                                          confidence_threshold)
        IN  /\ CallInHybridBranch(io) =>
                 /\ ~response.ok
                 /\ ~last'.ret.ok
                 /\ sessions' = sessions
            /\ ~CallInHybridBranch(io) =>
                 /\ response = Returns(_generate_gpt_response(io.gpt).text)
                 /\ io.encoded.ok =>
                      /\ last'.ret.ok
                      /\ last'.ret.value.response = response.value
    ]_vars

\* a call failed in the hybrid branch on a session that already holds a turn
\* of a call the failing embedding model did not touch
C14_Witness ==
  /\ last.op = "process_message"
  /\ ~last.io.similarity.ok
  /\ CallInHybridBranch(last.io)
  /\ ~last.ret.ok
  /\ \E id \in DOMAIN sessions :
       /\ Len(sessions[id].conversation_history) = 1
       /\ sessions[id].conversation_history[1].bot_response = "X"

Min(a, b) == IF a <= b THEN a ELSE b

\* C18: the history process_message hands to the merger for a session of n
\* turns is the last min(5, n) of them, oldest first, as user/assistant
\* pairs; it is empty for the first message and does not hold the message
\* being processed.
C18_HistoryIsLastFive ==
  [][ last'.op = "process_message" =>
        LET h == sessions[last'.arg].conversation_history
            n == Len(h)
            k == Min(HistoryWindow, n)
        IN  /\ Len(last'.history) = k
            /\ \A i \in 1..k :
                 last'.history[i] =
                   [ user |-> h[n - k + i].user_message,
                     assistant |-> h[n - k + i].bot_response ]
            /\ n = 0 => last'.history = << >>
            /\ \A i \in 1..k : last'.history[i].user # last'.user_message
    ]_vars

\* the seventh message was processed: six turns were stored, five were
\* handed over, the first of them the second message
C18_Witness ==
  /\ last.op = "process_message"
  /\ last.ret.ok
  /\ Len(sessions[last.arg].conversation_history) = HistoryWindow + 2
  /\ Len(last.history) = HistoryWindow
  /\ last.history[1].user = ChatMessage(2)

\* C37: every turn process_message appends is stored with confidence 0.0,
\* whatever confidence the custom backend reported for its reply, so every
\* stored turn's confidence lies between 0 and 1.
C37_StoredConfidenceIsZero ==
  [][ last'.op = "process_message" =>
        LET h == sessions'[last'.arg].conversation_history
        IN  /\ sessions' # sessions =>
                 /\ h[Len(h)].user_message = last'.user_message
                 /\ h[Len(h)].confidence = 0
            /\ \A i \in 1..Len(h) :
                 /\ h[i].confidence = 0
                 /\ h[i].confidence >= 0
                 /\ h[i].confidence <= 1000
    ]_vars

\* the custom backend's reply, reported at 0.85, was returned and stored
C37_Witness ==
  /\ last.op = "process_message"
  /\ last.ret.ok
  /\ last.io.custom = Returns(<< Text51, 850 >>)
  /\ last.ret.value.response = Text51
  /\ LET h == sessions[last.arg].conversation_history
     IN  /\ h[Len(h)].bot_response = Text51
         /\ h[Len(h)].confidence = 0

\* C38: the message list built for the general backend for a session of n
\* turns is the system message, then for each of the last min(5, n) turns
\* its user message and its assistant message, oldest turn first, then the
\* message being processed; it has 2*min(5, n) + 2 entries, and the window
\* the builder applies to the history it is handed leaves that history as
\* it is.
C38_GptMessages ==
  [][ last'.op = "process_message" =>
        LET h == sessions[last'.arg].conversation_history
            n == Len(h)
            k == Min(HistoryWindow, n)
            messages == last'.messages
        IN  /\ Len(messages) = 2 * k + 2
            /\ messages[1] = [ role |-> "system", content |-> SystemPrompt ]
            /\ \A i \in 1..k :
                 /\ messages[2 * i] =
                      [ role |-> "user", content |-> h[n - k + i].user_message ]
                 /\ messages[2 * i + 1] =
                      [ role |-> "assistant", content |-> h[n - k + i].bot_response ]
            /\ messages[2 * k + 2] =
                 [ role |-> "user", content |-> last'.user_message ]
            /\ LastN(last'.history, HistoryWindow) = last'.history
    ]_vars

\* the seventh message was processed: twelve entries, the first pair from
\* the second turn, the seventh message last
C38_Witness ==
  /\ last.op = "process_message"
  /\ last.ret.ok
  /\ Len(sessions[last.arg].conversation_history) = HistoryWindow + 2
  /\ Len(last.messages) = 2 * HistoryWindow + 2
  /\ last.messages[2].content = ChatMessage(2)
  /\ last.messages[2 * HistoryWindow + 2].content = ChatMessage(HistoryWindow + 2)

\* C19: on an engine without an analyzer every result of process_message
\* carries the label "unknown", and the turn the call appended is exported
\* with the label "unknown", whatever the message.
C19_NoClassifierMeansUnknown ==
  [][ (last'.op = "process_message" /\ ~sentiment_analyzer) =>
        /\ last'.ret.ok => last'.ret.value.emotional_state = "unknown"
        /\ sessions' # sessions =>
             LET export == get_conversation_export(sessions', last'.arg).value
             IN  /\ Len(export) = Len(sessions[last'.arg].conversation_history) + 1
                 /\ export[Len(export)].user = last'.user_message
                 /\ export[Len(export)].emotional_state = "unknown"
    ]_vars

\* without an analyzer, a message an analyzer would have called anxious was
\* processed
C19_Witness ==
  /\ ~sentiment_analyzer
  /\ last.op = "process_message"
  /\ last.io.sentiment.ok
  /\ "anxiety" \in last.io.sentiment.value.keys
  /\ last.ret.ok
  /\ Len(sessions[last.arg].conversation_history) = 2

\* C20: on an engine with an analyzer whose analyze call fails,
\* process_message fails only if the merge or the metadata fails; the label
\* is "unknown" in the result and on the appended turn, and the reply is the
\* merged one.
C20_ClassifierFailureIsDegraded ==
  [][ (last'.op = "process_message" /\ sentiment_analyzer /\ ~last'.io.sentiment.ok) =>
        LET io == last'.io
            response == generate_response(io.custom, io.gpt, io.similarity,
                                          confidence_threshold)
            h == sessions'[last'.arg].conversation_history
        IN  /\ last'.ret.ok <=>
                 (response.ok /\ get_response_metadata(response.value, io.encoded).ok)
            /\ response.ok =>
                 /\ Len(h) = Len(sessions[last'.arg].conversation_history) + 1
                 /\ h[Len(h)].user_message = last'.user_message
                 /\ h[Len(h)].bot_response = response.value
                 /\ h[Len(h)].emotional_state = "unknown"
            /\ last'.ret.ok =>
                 /\ last'.ret.value.emotional_state = "unknown"
                 /\ last'.ret.value.response = response.value
    ]_vars

\* the analyzer failed on a message that followed one it had called anxious,
\* and the call returned
C20_Witness ==
  /\ sentiment_analyzer
  /\ last.op = "process_message"
  /\ ~last.io.sentiment.ok
  /\ last.ret.ok
  /\ LET h == sessions[last.arg].conversation_history
     IN  /\ Len(h) = 2
         /\ h[1].emotional_state = "anxious"
         /\ h[2].emotional_state = "unknown"

(***************************************************************************)
(* SpecClock: one session while the wall clock moves on between the calls. *)
(* The readings of datetime.now() are taken never to go back, and a call   *)
(* to take no time.                                                        *)
(***************************************************************************)
\* the next message of the conversation is processed, within MaxTurns
ClockProcess(session_id, io) ==
  /\ TotalTurns(sessions) < MaxTurns
  /\ ChatProcess(session_id, io)

\* get_session_summary is called and its result kept
ClockSummary(session_id) ==
  /\ last' = [ op |-> "get_session_summary", arg |-> session_id,
               ret |-> get_session_summary(sessions, session_id) ]
  /\ UNCHANGED << sessions, sentiment_analyzer, confidence_threshold, issued,
                  now, ended, log, unreported, merge, threads,
       detached >>

NextClock ==
  \/ Tick
  \/ ChatCreate
  \/ \E session_id \in issued, io \in ChatIo : ClockProcess(session_id, io)
  \/ \E session_id \in CallerIds : ClockSummary(session_id)
  \/ \E session_id \in CallerIds : EndSession(session_id)

SpecClock == Init /\ [][NextClock]_vars

\* C15: after every step every stored session has last_active >= created_at,
\* and no step lowers the last_active of a session it keeps; last_active
\* changes only in a step that appends a turn to that session.
C15_LastActiveMonotone ==
  [][ /\ \A id \in DOMAIN sessions' :
           sessions'[id].last_active >= sessions'[id].created_at
      /\ \A id \in DOMAIN sessions \cap DOMAIN sessions' :
           /\ sessions'[id].last_active >= sessions[id].last_active
           /\ sessions'[id].last_active # sessions[id].last_active =>
                Len(sessions'[id].conversation_history)
                  = Len(sessions[id].conversation_history) + 1
    ]_vars

\* a session created after the first reading got two turns at two later
\* readings
C15_Witness ==
  \E id \in DOMAIN sessions :
    LET h == sessions[id].conversation_history
    IN  /\ Len(h) = 2
        /\ 0 < sessions[id].created_at
        /\ sessions[id].created_at < h[1].timestamp
        /\ h[1].timestamp < h[2].timestamp
        /\ sessions[id].last_active = h[2].timestamp

\* C16: the summary of every stored session reports duration_minutes as the
\* whole minutes of the span from created_at to last_active, whatever its
\* length.
C16_DurationIsWholeMinutes ==
  \A id \in DOMAIN sessions :
    get_session_summary(sessions, id).value.duration_minutes
      = (sessions[id].last_active - sessions[id].created_at) \div 60

\* C17: a summary taken of a session to which no turn has been added since
\* create_session reports message_count 0 and duration_minutes 0.
C17_FreshSummaryIsZero ==
  ( /\ last.op = "get_session_summary"
    /\ last.ret.found
    /\ sessions[last.arg].conversation_history = << >> ) =>
    /\ last.ret.value.message_count = 0
    /\ last.ret.value.duration_minutes = 0

\* the summary of a session created at the second reading was taken a day
\* later, no turn added
C17_Witness ==
  /\ last.op = "get_session_summary"
  /\ last.ret.found
  /\ sessions[last.arg].conversation_history = << >>
  /\ sessions[last.arg].created_at = 59
  /\ now = 86400
  /\ last.ret.value.message_count = 0

\* C30 (checked under SpecClock): when the merger raises in a
\* process_message call on a stored session, the session is as it was before
\* the call: no turn is appended, last_active is unchanged, and the summary
\* reports the same message_count.
C30_MergeFailureLeavesSession ==
  [][ ( /\ last'.op = "process_message"
        /\ last'.arg \in DOMAIN sessions
        /\ ~generate_response(last'.io.custom, last'.io.gpt, last'.io.similarity,
                              confidence_threshold).ok ) =>
        /\ ~last'.ret.ok
        /\ last'.arg \in DOMAIN sessions'
        /\ sessions'[last'.arg] = sessions[last'.arg]
        /\ get_session_summary(sessions', last'.arg).value.message_count
             = get_session_summary(sessions, last'.arg).value.message_count
    ]_vars

\* the merger raised on a session whose one turn was added at an earlier
\* reading of the clock
C30_Witness ==
  /\ last.op = "process_message"
  /\ ~last.ret.ok
  /\ ~last.io.similarity.ok
  /\ last.arg \in DOMAIN sessions
  /\ Len(sessions[last.arg].conversation_history) = 1
  /\ sessions[last.arg].last_active < now

(***************************************************************************)
(* SpecDetect: _detect_emotional_state applied to bounded signals          *)
(***************************************************************************)
DetectKeywords == { "anxiety", "anxious", "depression", "sad", "stress" }

DetectScores == { 0, 700, 701, 1000 }

\* what analyze can give: an exception, a mapping, or a text
DetectSignals ==
  { Raises }
    \cup { Returns([ mapping |-> TRUE, keys |-> keys, positive |-> positive ]) :
             keys \in SUBSET DetectKeywords, positive \in DetectScores }
    \cup { Returns([ mapping |-> FALSE, keys |-> keys, positive |-> 0 ]) :
             keys \in SUBSET DetectKeywords }

InitDetect ==
  /\ sessions = [ k \in {} |-> None ]
  /\ sentiment_analyzer \in BOOLEAN
  /\ confidence_threshold = DefaultThreshold
  /\ issued = {}
  /\ now = 0
  /\ \E sentiment \in DetectSignals :
       last = [ op |-> "analyzed", sentiment |-> sentiment ]
  /\ ended = {}
  /\ log = [ k \in {} |-> << >> ]
  /\ unreported = {}
  /\ merge = NoMerge
  /\ threads = NoThreads
  /\ detached = [ k \in {} |-> None ]

DetectEmotionalState ==
  /\ last.op = "analyzed"
  /\ last' = [ op |-> "detected", sentiment |-> last.sentiment,
               label |-> _detect_emotional_state(sentiment_analyzer, last.sentiment) ]
  /\ UNCHANGED << sessions, sentiment_analyzer, confidence_threshold, issued,
                  now, ended, log, unreported, merge, threads,
       detached >>

NextDetect == DetectEmotionalState

SpecDetect == InitDetect /\ [][NextDetect]_vars

\* C28: with an analyzer the label is that of the first rule that matches,
\* in the order anxiety/anxious, depression/sad, stress, positive > 0.7,
\* else neutral; it is one of the six labels, and it is "unknown" only when
\* there is no analyzer or the analyzer failed.
C28_FirstMatchingRule ==
  last.op = "detected" =>
    /\ last.label \in EmotionalState
    /\ last.label = "unknown" => (~sentiment_analyzer \/ ~last.sentiment.ok)
    /\ (sentiment_analyzer /\ last.sentiment.ok) =>
         LET signal == last.sentiment.value
         IN  last.label =
               IF {"anxiety", "anxious"} \cap signal.keys # {} THEN "anxious"
               ELSE IF {"depression", "sad"} \cap signal.keys # {} THEN "depressed"
               ELSE IF "stress" \in signal.keys THEN "stressed"
               ELSE IF signal.positive > 700 THEN "calm"
               ELSE "neutral"

(***************************************************************************)
(* SpecEnd: process_message and end_session called from several threads on *)
(* one stored session.  end_session tests the key and deletes it in two    *)
(* statements, with no lock between them.                                   *)
(***************************************************************************)
\* the engine holds one session, no call is under way
InitEnd ==
  /\ sessions = create_session([ k \in {} |-> None ], Uuid(1), "user-1", 0, 0)
  /\ sentiment_analyzer = FALSE
  /\ confidence_threshold = DefaultThreshold
  /\ issued = { Uuid(1) }
  /\ now = 0
  /\ last = [ op |-> "init" ]
  /\ ended = {}
  /\ log = [ k \in { Uuid(1) } |-> << >> ]
  /\ unreported = {}
  /\ merge = NoMerge
  /\ threads = [ t \in Threads |-> Idle ]
  /\ detached = [ k \in {} |-> None ]

\* thread t enters end_session(session_id)
EndCall(t, session_id) ==
  /\ threads[t].pc = "idle"
  /\ threads' =
       [ threads EXCEPT ![t] =
           [ pc |-> "end_check", arg |-> session_id,
             ticket |-> Cardinality(Started) + 1 ] ]
  /\ UNCHANGED << sessions, issued, detached >>
  /\ ConcUnchanged

\* if session_id in self.sessions: ... else return False
EndCheck(t) ==
  /\ threads[t].pc = "end_check"
  /\ threads' =
       [ threads EXCEPT ![t].pc =
           IF threads[t].arg \in DOMAIN sessions THEN "end_del" ELSE "end_false" ]
  /\ UNCHANGED << sessions, issued, detached >>
  /\ ConcUnchanged

\* del self.sessions[session_id]; return True.  The del raises KeyError if
\* the key has gone since the test.  The deleted object lives on for the
\* calls that hold it.
EndDelete(t) ==
  /\ threads[t].pc = "end_del"
  /\ LET id == threads[t].arg
     IN  IF id \in DOMAIN sessions
           THEN /\ sessions' = end_session(sessions, id).store
                /\ detached' =
                     [ k \in DOMAIN detached \cup {id} |->
                         IF k = id THEN sessions[id] ELSE detached[k] ]
                /\ ended' = ended \cup {id}
                /\ threads' = [ threads EXCEPT ![t].pc = "end_true" ]
           ELSE /\ threads' = [ threads EXCEPT ![t].pc = "end_raised" ]
                /\ UNCHANGED << sessions, detached, ended >>
  /\ UNCHANGED << sentiment_analyzer, confidence_threshold, issued, now, last,
                  log, unreported, merge >>

NextEnd ==
  \/ \E t \in Threads, io \in ConcIo : Call(t, Uuid(1), ConcMessage(t), io)
  \/ \E t \in Threads : EndCall(t, Uuid(1))
  \/ \E t \in Threads : Lookup(t)
  \/ \E t \in Threads : Create(t)
  \/ \E t \in Threads : Generate(t)
  \/ \E t \in Threads : AppendTurn(t)
  \/ \E t \in Threads : Touch(t)
  \/ \E t \in Threads : Return(t)
  \/ \E t \in Threads : EndCheck(t)
  \/ \E t \in Threads : EndDelete(t)

SpecEnd == InitEnd /\ [][NextEnd]_vars

\* the threads that called end_session, and those whose call is over
Enders ==
  { t \in Threads :
      threads[t].pc \in { "end_check", "end_del", "end_true", "end_false", "end_raised" } }

EndersDone ==
  { t \in Threads : threads[t].pc \in { "end_true", "end_false", "end_raised" } }

\* C27: of the end_session calls running concurrently on a stored id none
\* raises, and when they are over exactly one has returned True and the
\* others False.
C27_ConcurrentEndSession ==
  /\ \A t \in Threads : threads[t].pc # "end_raised"
  /\ (Cardinality(Enders) >= 2 /\ Enders = EndersDone) =>
       Cardinality({ t \in Enders : threads[t].pc = "end_true" }) = 1

\* C29: a process_message call never appends its turn to a session that has
\* been deleted from the store, so no returned result names a session that
\* was deleted before the turn was appended.
C29_NoAppendAfterRemoval ==
  \A t \in Appended :
    /\ ~threads[t].removed
    /\ threads[t].pc = "done" => threads[t].ret.session_id \notin ended

=============================================================================
